---- MODULE Spec2Model ----
(***************************************************************************)
(* Time-entry workflow of app/main.py (FastAPI handlers over the v2_*      *)
(* tables).  The database is the state: the three relations and their      *)
(* BIGSERIAL sequences.  A handler is one action: it runs its statement,   *)
(* commits and answers.  v2_reset drops the tables and runs                *)
(* ensure_v2_schema; here it is one step as well.  SpecBoot and SpecRace   *)
(* put several workers side by side and take the statements and commits of *)
(* ensure_v2_schema, v2_reset and the status updates one at a time.        *)
(*                                                                         *)
(* Representation                                                          *)
(*   Optional[T]      a sequence of length <= 1: None is <<>>, x is <<x>>  *)
(*   date             its proleptic Gregorian ordinal (date.toordinal())   *)
(*   hours (request)  thousandths of an hour (the float of the form)       *)
(*   hours (stored)   hundredths of an hour (NUMERIC(5,2))                 *)
(*   ORDER BY name    the rows as a set (the order of names is not kept)   *)
(***************************************************************************)
EXTENDS Integers, Sequences, FiniteSets

VARIABLES
    people,           \* v2_people:       id -> [name, email]
    projects,         \* v2_projects:     id -> [code, name, is_active]
    entries,          \* v2_time_entries: id -> [person_id, project_id, work_date, hours, notes, status]
    seq,              \* last value handed out by each table's BIGSERIAL sequence
    last,             \* the handler that ran last: [op, code, body]
    wk,               \* a week-calculator call: [year, week, res]
    tables,           \* TRUE when the three v2_* tables exist
    proc,             \* a worker's call in progress: its handler, position and open transaction
    shadow            \* v2_time_entries had the racing requests run one after another

vars == <<people, projects, entries, seq, last, wk, tables, proc, shadow>>
ctl == <<tables, proc, shadow>>
db == <<people, projects, entries>>

(***************************************************************************)
(* Bounds of the model.                                                    *)
(***************************************************************************)
MaxPersonId == 2
MaxProjectId == 2
MaxEntryId == 2
NumProcs == 2

(***************************************************************************)
(* Optional values.                                                        *)
(***************************************************************************)
None == <<>>
Some(x) == <<x>>

(***************************************************************************)
(* datetime.date, as the standard library computes it.                     *)
(***************************************************************************)
MINYEAR == 1
MAXYEAR == 9999
MAXORDINAL == 3652059

is_leap(year) == year % 4 = 0 /\ (year % 100 # 0 \/ year % 400 = 0)

\* ordinal of 1 January of `year`
ymd2ord_jan1(year) ==
    LET y == year - 1
    IN  y * 365 + (y \div 4) - (y \div 100) + (y \div 400) + 1

\* ordinal of the Monday that starts ISO week 1 of `year`
isoweek1monday(year) ==
    LET firstday == ymd2ord_jan1(year)
        firstweekday == (firstday + 6) % 7
        week1monday == firstday - firstweekday
    IN  IF firstweekday > 3 THEN week1monday + 7 ELSE week1monday

\* date.fromisocalendar(year, week, 1): [ok, err, ord]
fromisocalendar_monday(year, week) ==
    IF year < MINYEAR \/ year > MAXYEAR
    THEN [ok |-> FALSE, err |-> "ValueError: Year is out of range", ord |-> 0]
    ELSE LET first_weekday == ymd2ord_jan1(year) % 7
             out_of_range ==
                 IF 0 < week /\ week < 53 THEN FALSE
                 ELSE IF week = 53
                      THEN ~(first_weekday = 4 \/ (first_weekday = 3 /\ is_leap(year)))
                      ELSE TRUE
         IN  IF out_of_range
             THEN [ok |-> FALSE, err |-> "ValueError: Invalid week", ord |-> 0]
             ELSE [ok |-> TRUE, err |-> "",
                   ord |-> isoweek1monday(year) + (week - 1) * 7]

\* monday + timedelta(days=i) for i in range(7): [ok, err, days]
iso_week_dates(year, week) ==
    LET monday == fromisocalendar_monday(year, week)
    IN  IF ~monday.ok
        THEN [ok |-> FALSE, err |-> monday.err, days |-> <<>>]
        ELSE IF \E i \in 0..6 : monday.ord + i > MAXORDINAL
        THEN [ok |-> FALSE, err |-> "OverflowError: date value out of range", days |-> <<>>]
        ELSE [ok |-> TRUE, err |-> "", days |-> [i \in 1..7 |-> monday.ord + (i - 1)]]

(***************************************************************************)
(* Request inputs.                                                         *)
(***************************************************************************)
PersonIdInputs == 1..MaxPersonId
ProjectIdInputs == 1..MaxProjectId
EntryIdInputs == 1..MaxEntryId

\* Monday 2024-01-01, the first day of ISO week 1 of 2024
Mon1 == isoweek1monday(2024)
\* the Sunday that ends week 1 and the Monday that starts week 2
WorkDateInputs == {Mon1 + 6, Mon1 + 7}
\* (year, week) of a request; week 53 does not exist in 2024
WeekInputs == {<<2024, 1>>, <<2024, 2>>, <<2024, 53>>}
\* date.today().isocalendar()[:2]
TodayInputs == {<<2024, 1>>}
\* thousandths of an hour: -0.005, -0.004, 2.004, 999.995
HoursInputs == {-5, -4, 2004, 999995}
NotesInputs == {None, Some("n")}
NameInputs == {" Grace Hopper "}
EmailInputs == {None, Some("ada@example.com")}
CodeInputs == {None, Some(""), Some("INT")}

strip(name) == IF name = " Grace Hopper " THEN "Grace Hopper" ELSE name

(***************************************************************************)
(* Relations as functions from the primary key.                            *)
(***************************************************************************)
Empty == [i \in {} |-> 0]
Insert(rel, id, row) == [i \in DOMAIN rel \cup {id} |-> IF i = id THEN row ELSE rel[i]]
Delete(rel, ids) == [i \in DOMAIN rel \ ids |-> rel[i]]

Response(op, code) == [op |-> op, code |-> code, body |-> None]

(***************************************************************************)
(* ensure_v2_schema: CREATE TABLE IF NOT EXISTS, then seed the relations   *)
(* that are empty.                                                         *)
(***************************************************************************)
DefaultProject == [code |-> Some("INT"), name |-> "Internal", is_active |-> TRUE]
DefaultPerson == [name |-> "Ada Lovelace", email |-> Some("ada@example.com")]

SeedProjects(prj, sq) ==
    IF DOMAIN prj = {}
    THEN [rel |-> Insert(prj, sq.projects + 1, DefaultProject),
          seq |-> [sq EXCEPT !.projects = @ + 1]]
    ELSE [rel |-> prj, seq |-> sq]

SeedPeople(ppl, sq) ==
    IF DOMAIN ppl = {}
    THEN [rel |-> Insert(ppl, sq.people + 1, DefaultPerson),
          seq |-> [sq EXCEPT !.people = @ + 1]]
    ELSE [rel |-> ppl, seq |-> sq]

ensure_v2_schema ==
    LET p == SeedProjects(projects, seq)
        q == SeedPeople(people, p.seq)
    IN  /\ q.seq.projects <= MaxProjectId
        /\ q.seq.people <= MaxPersonId
        /\ projects' = p.rel
        /\ people' = q.rel
        /\ seq' = q.seq
        /\ last' = Response("ensure_v2_schema", 0)
        /\ UNCHANGED <<entries, wk, ctl>>

NoWeek == [year |-> 0, week |-> 0, res |-> None]

\* the workers that run handlers at the same time, each on its own connection
Procs == 1..NumProcs

\* a worker between two calls.  In a call: op is the handler, pc the statement it runs
\* next, args its parameters, rows the v2_time_entries rows its open transaction has
\* updated (and locked), ins the ids of the rows it has inserted, ddl whether it has
\* created the tables, wrote whether the call has committed a change of the stored rows
NoIns == [projects |-> None, people |-> None]
Idle == [op |-> "idle", pc |-> "idle", args |-> <<>>, rows |-> {}, ins |-> NoIns,
         ddl |-> FALSE, wrote |-> FALSE]

NoShadow == [serial |-> Empty, commit |-> Empty]

\* the first start, on a database without the tables
InitDb ==
    LET sq0 == [people |-> 0, projects |-> 0, entries |-> 0]
        p == SeedProjects(Empty, sq0)
        q == SeedPeople(Empty, p.seq)
    IN  /\ projects = p.rel
        /\ people = q.rel
        /\ entries = Empty
        /\ seq = q.seq
        /\ last = Response("ensure_v2_schema", 0)

\* one worker process, no call in progress
InitCtl ==
    /\ tables = TRUE
    /\ proc = [p \in Procs |-> Idle]
    /\ shadow = NoShadow

Init == InitDb /\ wk = NoWeek /\ InitCtl

(***************************************************************************)
(* POST /time/add                                                          *)
(***************************************************************************)
\* mutant: the cast truncates instead of rounding
round_numeric_truncate(hours) ==
    IF hours >= 0 THEN hours \div 10 ELSE -((-hours) \div 10)

\* float8 -> NUMERIC(5,2): thousandths to hundredths, half away from zero
round_numeric(hours) ==
    IF hours >= 0 THEN (hours + 5) \div 10 ELSE -((-hours + 5) \div 10)

\* NUMERIC(5,2) holds |x| < 10^3
numeric_fits(stored) == stored > -100000 /\ stored < 100000

\* mutant: the INSERT leaves the entry submitted
time_add_row_submitted(person_id, project_id, work_date, hours, notes) ==
    [person_id |-> person_id, project_id |-> project_id, work_date |-> work_date,
     hours |-> (IF hours >= 0 THEN (hours + 5) \div 10 ELSE -((-hours + 5) \div 10)),
     notes |-> notes, status |-> "submitted"]

\* the row the INSERT builds, and whether the table's constraints accept it
time_add_row(person_id, project_id, work_date, hours, notes) ==
    [person_id |-> person_id, project_id |-> project_id, work_date |-> work_date,
     hours |-> round_numeric(hours), notes |-> notes, status |-> "draft"]

time_add_accepts(ppl, prj, row) ==
    /\ numeric_fits(row.hours)
    /\ row.hours >= 0                                              \* CHECK (hours >= 0)
    /\ row.person_id \in DOMAIN ppl                                \* REFERENCES v2_people(id)
    /\ row.project_id # None => row.project_id[1] \in DOMAIN prj   \* REFERENCES v2_projects(id)

time_add(person_id, project_id, work_date, hours, notes) ==
    LET id == seq.entries + 1
        row == time_add_row(person_id, project_id, work_date, hours, notes)
    IN  /\ id <= MaxEntryId
        /\ seq' = [seq EXCEPT !.entries = id]
        /\ IF time_add_accepts(people, projects, row)
           THEN /\ entries' = Insert(entries, id, row)
                /\ last' = Response("time_add", 303)
           ELSE /\ entries' = entries
                /\ last' = Response("time_add", 500)
        /\ UNCHANGED <<people, projects, wk, ctl>>

(***************************************************************************)
(* POST /time/delete/{entry_id}                                            *)
(***************************************************************************)
time_delete(entry_id) ==
    /\ entries' = Delete(entries, {entry_id})
    /\ last' = Response("time_delete", 303)
    /\ UNCHANGED <<people, projects, seq, wk, ctl>>

(***************************************************************************)
(* POST /time/submit-week                                                  *)
(***************************************************************************)
\* work_date BETWEEN start AND end
Between(d, start, end) == start <= d /\ d <= end

\* mutant: the UPDATE without "AND status='draft'"
submit_week_rows_any_status(ent, person_id, start, end) ==
    {i \in DOMAIN ent : ent[i].person_id = person_id /\ Between(ent[i].work_date, start, end)}

submit_week_rows(ent, person_id, start, end) ==
    {i \in DOMAIN ent : /\ ent[i].person_id = person_id
                        /\ Between(ent[i].work_date, start, end)
                        /\ ent[i].status = "draft"}

SetStatus(ent, ids, status) ==
    [i \in DOMAIN ent |-> IF i \in ids THEN [ent[i] EXCEPT !.status = status] ELSE ent[i]]

\* mutant: a submit that toggles, taking a submitted entry back to draft
submit_week_update_toggle(ent, person_id, start, end) ==
    [i \in DOMAIN ent |->
        IF ent[i].person_id = person_id /\ Between(ent[i].work_date, start, end)
           /\ ent[i].status \in {"draft", "submitted"}
        THEN [ent[i] EXCEPT !.status = IF @ = "draft" THEN "submitted" ELSE "draft"]
        ELSE ent[i]]

\* UPDATE v2_time_entries SET status='submitted' WHERE ...
submit_week_update(ent, person_id, start, end) ==
    SetStatus(ent, submit_week_rows(ent, person_id, start, end), "submitted")

time_submit_week(person_id, year, week) ==
    LET w == iso_week_dates(year, week)
    IN  /\ IF w.ok
           THEN /\ entries' = submit_week_update(entries, person_id, w.days[1], w.days[7])
                /\ last' = Response("time_submit_week", 303)
           ELSE /\ entries' = entries
                /\ last' = Response("time_submit_week", 500)
        /\ UNCHANGED <<people, projects, seq, wk, ctl>>

(***************************************************************************)
(* POST /approvals/approve/{entry_id}, POST /approvals/reject/{entry_id}   *)
(***************************************************************************)
approvals_approve(entry_id) ==
    /\ entries' = SetStatus(entries, {entry_id} \cap DOMAIN entries, "approved")
    /\ last' = Response("approvals_approve", 303)
    /\ UNCHANGED <<people, projects, seq, wk, ctl>>

\* mutant: a reject that only takes back a submitted entry
approvals_reject_gated(entry_id) ==
    /\ entries' = SetStatus(entries,
                      {i \in {entry_id} \cap DOMAIN entries : entries[i].status = "submitted"},
                      "draft")
    /\ last' = Response("approvals_reject", 303)
    /\ UNCHANGED <<people, projects, seq, wk, ctl>>

approvals_reject(entry_id) ==
    /\ entries' = SetStatus(entries, {entry_id} \cap DOMAIN entries, "draft")
    /\ last' = Response("approvals_reject", 303)
    /\ UNCHANGED <<people, projects, seq, wk, ctl>>

(***************************************************************************)
(* POST /people/add, POST /people/delete/{person_id}                       *)
(***************************************************************************)
\* the row whose UNIQUE email the new row collides with (NULLs never collide)
email_conflict(ppl, email) ==
    IF email = None THEN {} ELSE {i \in DOMAIN ppl : ppl[i].email = email}

people_add(name, email) ==
    LET id == seq.people + 1
        hit == email_conflict(people, email)
    IN  /\ id <= MaxPersonId
        /\ seq' = [seq EXCEPT !.people = id]
        /\ people' = IF hit = {}
                     THEN Insert(people, id, [name |-> strip(name), email |-> email])
                     ELSE [i \in DOMAIN people |->
                              IF i \in hit THEN [people[i] EXCEPT !.name = strip(name)]
                                           ELSE people[i]]
        /\ last' = Response("people_add", 303)
        /\ UNCHANGED <<projects, entries, wk, ctl>>

\* mutant: the foreign key without ON DELETE CASCADE semantics, entries left behind
people_delete_no_cascade(person_id) ==
    /\ people' = Delete(people, {person_id})
    /\ entries' = entries
    /\ last' = Response("people_delete", 303)
    /\ UNCHANGED <<projects, seq, wk, ctl>>

\* ON DELETE CASCADE
people_delete(person_id) ==
    /\ people' = Delete(people, {person_id})
    /\ entries' = Delete(entries, {i \in DOMAIN entries : entries[i].person_id = person_id})
    /\ last' = Response("people_delete", 303)
    /\ UNCHANGED <<projects, seq, wk, ctl>>

(***************************************************************************)
(* POST /projects/add, /projects/toggle/{id}, /projects/delete/{id}        *)
(***************************************************************************)
\* NULLIF(code, '')
nullif_empty(code) == IF code = Some("") THEN None ELSE code

code_conflict(prj, code) ==
    IF code = None THEN {} ELSE {i \in DOMAIN prj : prj[i].code = code}

projects_add(code, name) ==
    LET id == seq.projects + 1
        c == nullif_empty(code)
        hit == code_conflict(projects, c)
    IN  /\ id <= MaxProjectId
        /\ seq' = [seq EXCEPT !.projects = id]
        /\ projects' = IF hit = {}
                       THEN Insert(projects, id,
                                [code |-> c, name |-> strip(name), is_active |-> TRUE])
                       ELSE [i \in DOMAIN projects |->
                                IF i \in hit
                                THEN [projects[i] EXCEPT !.name = strip(name), !.is_active = TRUE]
                                ELSE projects[i]]
        /\ last' = Response("projects_add", 303)
        /\ UNCHANGED <<people, entries, wk, ctl>>

projects_toggle(project_id) ==
    /\ projects' = [i \in DOMAIN projects |->
                       IF i = project_id
                       THEN [projects[i] EXCEPT !.is_active = ~@]
                       ELSE projects[i]]
    /\ last' = Response("projects_toggle", 303)
    /\ UNCHANGED <<people, entries, seq, wk, ctl>>

\* mutant: ON DELETE CASCADE on project_id, as on person_id
projects_delete_cascade(project_id) ==
    /\ projects' = Delete(projects, {project_id})
    /\ entries' = Delete(entries,
                      {i \in DOMAIN entries : entries[i].project_id = Some(project_id)})
    /\ last' = Response("projects_delete", 303)
    /\ UNCHANGED <<people, seq, wk, ctl>>

\* ON DELETE SET NULL
projects_delete(project_id) ==
    /\ projects' = Delete(projects, {project_id})
    /\ entries' = [i \in DOMAIN entries |->
                      IF entries[i].project_id = Some(project_id)
                      THEN [entries[i] EXCEPT !.project_id = None]
                      ELSE entries[i]]
    /\ last' = Response("projects_delete", 303)
    /\ UNCHANGED <<people, seq, wk, ctl>>

(***************************************************************************)
(* POST /v2/reset: DROP the three tables (their sequences go with them),   *)
(* then ensure_v2_schema on the empty database.                            *)
(***************************************************************************)
v2_reset ==
    LET sq0 == [people |-> 0, projects |-> 0, entries |-> 0]
        p == SeedProjects(Empty, sq0)
        q == SeedPeople(Empty, p.seq)
    IN  /\ projects' = p.rel
        /\ people' = q.rel
        /\ entries' = Empty
        /\ seq' = q.seq
        /\ last' = Response("v2_reset", 200)
        /\ UNCHANGED <<wk, ctl>>

(***************************************************************************)
(* GET /my-week                                                            *)
(***************************************************************************)
Min(S) == CHOOSE x \in S : \A y \in S : x <= y

\* ORDER BY id
RECURSIVE OrderById(_)
OrderById(S) == IF S = {} THEN <<>> ELSE <<Min(S)>> \o OrderById(S \ {Min(S)})

RECURSIVE SumHours(_, _)
SumHours(ent, rows) ==
    IF rows = <<>> THEN 0 ELSE ent[Head(rows)].hours + SumHours(ent, Tail(rows))

\* SELECT id FROM v2_people ORDER BY id LIMIT 1
pick_default_person_id(ppl) ==
    IF DOMAIN ppl = {} THEN None ELSE Some(Min(DOMAIN ppl))

\* mutant: the SELECT without "te.person_id = %s"
week_rows_any_person(ent, person_id, start, end) ==
    {i \in DOMAIN ent : Between(ent[i].work_date, start, end)}

\* WHERE te.person_id = %s AND te.work_date BETWEEN %s AND %s
week_rows(ent, person_id, start, end) ==
    {i \in DOMAIN ent : ent[i].person_id = person_id /\ Between(ent[i].work_date, start, end)}

\* by_day = {d: [] for d in days}; by_day[r["work_date"]].append(r), rows by (work_date, id)
by_day_of(ent, rows, days) ==
    [d \in {days[i] : i \in 1..Len(days)} |-> OrderById({r \in rows : ent[r].work_date = d})]

RECURSIVE Concat(_, _, _)
Concat(by_day, days, i) ==
    IF i > Len(days) THEN <<>> ELSE by_day[days[i]] \o Concat(by_day, days, i + 1)

\* mutant: BOOL_AND without the COALESCE, read as true on no rows
status_hint_of_empty_approved(ent, rows) ==
    LET all_approved == \A r \in rows : ent[r].status = "approved"
        any_submitted == \E r \in rows : ent[r].status = "submitted"
    IN  IF all_approved THEN "approved" ELSE IF any_submitted THEN "submitted" ELSE "draft"

status_hint_of(ent, rows) ==
    LET all_approved == rows # {} /\ \A r \in rows : ent[r].status = "approved"
        any_submitted == \E r \in rows : ent[r].status = "submitted"
    IN  IF all_approved THEN "approved" ELSE IF any_submitted THEN "submitted" ELSE "draft"

\* SELECT id, code, name FROM v2_projects WHERE is_active IS TRUE
active_projects(prj) == {r \in DOMAIN prj : prj[r].is_active}

\* the template context, or None when the handler ends in html_error
my_week_ctx(ppl, prj, ent, person_id, year, week, today) ==
    LET y == IF year = 0 \/ week = 0 THEN (IF year = 0 THEN today[1] ELSE year) ELSE year
        w == IF year = 0 \/ week = 0 THEN (IF week = 0 THEN today[2] ELSE week) ELSE week
        pid == IF person_id = 0 THEN pick_default_person_id(ppl) ELSE Some(person_id)
        dates == iso_week_dates(y, w)
    IN  IF pid = None \/ ~dates.ok
        THEN None
        ELSE LET rows == week_rows(ent, pid[1], dates.days[1], dates.days[7])
                 by_day == by_day_of(ent, rows, dates.days)
             IN  Some([year |-> y, week |-> w, days |-> dates.days, person_id |-> pid[1],
                       people |-> DOMAIN ppl, projects |-> active_projects(prj),
                       by_day |-> by_day,
                       total_hours |-> SumHours(ent, Concat(by_day, dates.days, 1)),
                       status_hint |-> status_hint_of(ent, rows)])

my_week(person_id, year, week, today) ==
    LET ctx == my_week_ctx(people, projects, entries, person_id, year, week, today)
    IN  /\ last' = [op |-> "my_week", code |-> IF ctx = None THEN 500 ELSE 200, body |-> ctx]
        /\ UNCHANGED <<people, projects, entries, seq, wk, ctl>>

(***************************************************************************)
(* The application: every request, and a restart of the process, with the  *)
(* request parameters drawn from the sets of `in`.                         *)
(***************************************************************************)
NextOver(in) ==
    \/ ensure_v2_schema
    \/ \E p \in PersonIdInputs \cup {0}, yw \in in.week \cup {<<0, 0>>}, t \in TodayInputs :
          my_week(p, yw[1], yw[2], t)
    \/ \E p \in in.person, r \in in.project, d \in in.date, h \in in.hours, n \in in.notes :
          time_add(p, r, d, h, n)
    \/ \E e \in EntryIdInputs : time_delete(e)
    \/ \E p \in PersonIdInputs, yw \in in.week : time_submit_week(p, yw[1], yw[2])
    \/ \E e \in EntryIdInputs : approvals_approve(e)
    \/ \E e \in EntryIdInputs : approvals_reject(e)
    \/ \E n \in NameInputs, m \in in.email : people_add(n, m)
    \/ \E p \in PersonIdInputs : people_delete(p)
    \/ \E c \in in.code, n \in NameInputs : projects_add(c, n)
    \/ \E r \in ProjectIdInputs : projects_toggle(r)
    \/ \E r \in ProjectIdInputs : projects_delete(r)
    \/ v2_reset

\* the workflow: who, when and in which status, with one payload
WorkflowInputs ==
    [week |-> WeekInputs, person |-> PersonIdInputs, project |-> {None},
     date |-> WorkDateInputs, hours |-> {6000}, notes |-> {None},
     email |-> {None}, code |-> {None}]

\* the week's grid: whose hours, on which day
SummaryInputs ==
    [week |-> {<<2024, 1>>}, person |-> PersonIdInputs, project |-> {None},
     date |-> WorkDateInputs, hours |-> {2004, 6000}, notes |-> {None},
     email |-> {None}, code |-> {None}]

\* the payload of an entry: hours and notes as sent, an owner and a project that may not exist
EntryInputs ==
    [week |-> {<<2024, 1>>}, person |-> {1}, project |-> {None, Some(1)},
     date |-> {Mon1}, hours |-> HoursInputs, notes |-> NotesInputs,
     email |-> {None}, code |-> {None}]

\* the projects: entries on either project or on none
ProjectInputs ==
    [week |-> {<<2024, 1>>}, person |-> {1},
     project |-> {None} \cup {Some(r) : r \in ProjectIdInputs},
     date |-> {Mon1}, hours |-> {6000}, notes |-> NotesInputs,
     email |-> EmailInputs, code |-> CodeInputs]

Next == NextOver(WorkflowInputs)
Spec == Init /\ [][Next]_vars

NextSummary == NextOver(SummaryInputs)
SpecSummary == Init /\ [][NextSummary]_vars

NextEntry == NextOver(EntryInputs)
SpecEntry == Init /\ [][NextEntry]_vars

NextProject == NextOver(ProjectInputs)
SpecProject == Init /\ [][NextProject]_vars

(***************************************************************************)
(* The week calculator on its own: a call of iso_week_dates(year, week).   *)
(***************************************************************************)
FirstYear == 2015
LastYear == 2027
MaxWeekInput == 54

YearInputs == (FirstYear..LastYear) \cup {MINYEAR - 1, MINYEAR, MAXYEAR - 1, MAXYEAR, MAXYEAR + 1}
WeekNoInputs == {-1} \cup (0..MaxWeekInput)

InitWeek ==
    /\ InitDb
    /\ InitCtl
    /\ \E y \in YearInputs, w \in WeekNoInputs : wk = [year |-> y, week |-> w, res |-> None]

iso_week_dates_call ==
    /\ wk.res = None
    /\ wk' = [wk EXCEPT !.res = Some(iso_week_dates(wk.year, wk.week))]
    /\ UNCHANGED <<people, projects, entries, seq, last, ctl>>

NextWeek == iso_week_dates_call
SpecWeek == InitWeek /\ [][NextWeek]_vars

(***************************************************************************)
(* Workers side by side.  Each worker has its own connection; PostgreSQL   *)
(* runs its statements under READ COMMITTED: a statement sees the rows     *)
(* committed before it starts, a transaction's own writes are seen by the  *)
(* others at its commit, and a statement that needs a row or a unique key  *)
(* another open transaction has written waits for that transaction.        *)
(* ensure_v2_schema and v2_reset run statement by statement; a handler of  *)
(* one statement and its commit, run by a third party, is one step.        *)
(***************************************************************************)
Others(p) == Procs \ {p}
Goto(p, rec) == proc' = [proc EXCEPT ![p] = rec]

\* the exception leaves `with connect() as conn`: the transaction is rolled back and the
\* call ends (HTTP 500 for a request)
Raise(p) ==
    /\ Goto(p, Idle)
    /\ last' = Response(proc[p].op, 500)

\* a process starts and imports app.main, which calls ensure_v2_schema()
ensure_v2_schema_start(p) ==
    /\ proc[p] = Idle
    /\ Goto(p, [Idle EXCEPT !.op = "ensure_v2_schema", !.pc = "create"])
    /\ UNCHANGED <<people, projects, entries, seq, last, wk, tables, shadow>>

\* an open transaction that has read or written the tables holds its locks on them
holds_tables(q) == proc[q].pc \in {"insert_project", "count_people", "insert_person", "commit"}

\* POST /v2/reset, the first connection: the three DROP TABLE and the commit.  DROP waits
\* for the transactions that use the tables; the sequences go with the tables
v2_reset_drop(p) ==
    /\ proc[p] = Idle
    /\ \A q \in Others(p) : ~holds_tables(q)
    /\ tables' = FALSE
    /\ people' = Empty
    /\ projects' = Empty
    /\ entries' = Empty
    /\ seq' = [people |-> 0, projects |-> 0, entries |-> 0]
    /\ Goto(p, [Idle EXCEPT !.op = "v2_reset", !.pc = "create",
                            !.wrote = (db # <<Empty, Empty, Empty>>)])
    /\ UNCHANGED <<last, wk, shadow>>

\* connect() raises (the server cannot be reached) before the first statement
connect_fails(p) ==
    /\ proc[p].pc = "create"
    /\ Raise(p)
    /\ UNCHANGED <<people, projects, entries, seq, wk, tables, shadow>>

\* the CREATE TABLE IF NOT EXISTS statements: nothing to do when the tables exist; two
\* transactions that both find no tables both create them, and the second waits for the
\* first on the catalog's unique index
ensure_create(p) ==
    /\ proc[p].pc = "create"
    /\ Goto(p, IF tables THEN [proc[p] EXCEPT !.pc = "commit_ddl"]
               ELSE IF \E q \in Others(p) : proc[q].ddl
                    THEN [proc[p] EXCEPT !.pc = "create_wait"]
                    ELSE [proc[p] EXCEPT !.pc = "commit_ddl", !.ddl = TRUE])
    /\ UNCHANGED <<people, projects, entries, seq, last, wk, tables, shadow>>

\* conn.commit() after the DDL; the transactions that wait on the catalog get a
\* UniqueViolation
ensure_commit_ddl(p) ==
    /\ proc[p].pc = "commit_ddl"
    /\ tables' = (tables \/ proc[p].ddl)
    /\ proc' = [q \in Procs |->
                  IF q = p THEN [proc[p] EXCEPT !.pc = "count_projects", !.ddl = FALSE]
                  ELSE IF proc[q].pc = "create_wait" /\ proc[p].ddl
                       THEN [proc[q] EXCEPT !.pc = "raise"]
                       ELSE proc[q]]
    /\ UNCHANGED <<people, projects, entries, seq, last, wk, shadow>>

\* the waiting CREATE TABLE fails
ensure_create_raises(p) ==
    /\ proc[p].pc = "raise"
    /\ Raise(p)
    /\ UNCHANGED <<people, projects, entries, seq, wk, tables, shadow>>

\* SELECT COUNT(*) FROM v2_projects, and the `if` on it; UndefinedTable when another
\* worker has dropped the tables since
ensure_count_projects(p) ==
    /\ proc[p].pc = "count_projects"
    /\ IF tables
       THEN /\ Goto(p, [proc[p] EXCEPT !.pc = IF DOMAIN projects = {} THEN "insert_project"
                                                                     ELSE "count_people"])
            /\ UNCHANGED last
       ELSE Raise(p)
    /\ UNCHANGED <<people, projects, entries, seq, wk, tables, shadow>>

\* INSERT INTO v2_projects ('INT', 'Internal'): waits for an open transaction that has
\* inserted the code, fails when a committed row has it
ensure_insert_project(p) ==
    /\ proc[p].pc = "insert_project"
    /\ seq.projects < MaxProjectId
    /\ \A q \in Others(p) : proc[q].ins.projects = None
    /\ seq' = [seq EXCEPT !.projects = @ + 1]
    /\ IF code_conflict(projects, DefaultProject.code) = {}
       THEN /\ Goto(p, [proc[p] EXCEPT !.pc = "count_people",
                                       !.ins.projects = Some(seq.projects + 1)])
            /\ UNCHANGED last
       ELSE Raise(p)
    /\ UNCHANGED <<people, projects, entries, wk, tables, shadow>>

\* SELECT COUNT(*) FROM v2_people, and the `if` on it
ensure_count_people(p) ==
    /\ proc[p].pc = "count_people"
    /\ Goto(p, [proc[p] EXCEPT !.pc = IF DOMAIN people = {} THEN "insert_person" ELSE "commit"])
    /\ UNCHANGED <<people, projects, entries, seq, last, wk, tables, shadow>>

\* INSERT INTO v2_people ('Ada Lovelace', 'ada@example.com')
ensure_insert_person(p) ==
    /\ proc[p].pc = "insert_person"
    /\ seq.people < MaxPersonId
    /\ \A q \in Others(p) : proc[q].ins.people = None
    /\ seq' = [seq EXCEPT !.people = @ + 1]
    /\ IF email_conflict(people, DefaultPerson.email) = {}
       THEN /\ Goto(p, [proc[p] EXCEPT !.pc = "commit",
                                       !.ins.people = Some(seq.people + 1)])
            /\ UNCHANGED last
       ELSE Raise(p)
    /\ UNCHANGED <<people, projects, entries, wk, tables, shadow>>

\* the last conn.commit(): the inserted rows become the others' to see; the call returns
ensure_commit(p) ==
    /\ proc[p].pc = "commit"
    /\ projects' = IF proc[p].ins.projects = None THEN projects
                   ELSE Insert(projects, proc[p].ins.projects[1], DefaultProject)
    /\ people' = IF proc[p].ins.people = None THEN people
                 ELSE Insert(people, proc[p].ins.people[1], DefaultPerson)
    /\ Goto(p, Idle)
    /\ last' = Response(proc[p].op, IF proc[p].op = "v2_reset" THEN 200 ELSE 0)
    /\ UNCHANGED <<entries, seq, wk, tables, shadow>>

\* a request of one statement that arrives while the tables are dropped: UndefinedTable
undefined_table(op) ==
    /\ ~tables
    /\ last' = Response(op, 500)
    /\ UNCHANGED <<people, projects, entries, seq, wk, ctl>>

\* an INSERT of a third party waits for an open transaction that has inserted its key
email_free(email) == email # DefaultPerson.email \/ \A q \in Procs : proc[q].ins.people = None
code_free(code) == nullif_empty(code) # DefaultProject.code \/ \A q \in Procs : proc[q].ins.projects = None

\* the requests that fill and empty the relations while the workers start and reset
BootInputs ==
    [week |-> {<<2024, 1>>}, person |-> {1}, project |-> {None},
     date |-> {Mon1}, hours |-> {6000}, notes |-> {None},
     email |-> {DefaultPerson.email}, code |-> {None}]

BootRequests == {"time_add", "people_add", "projects_add"}

NextBoot ==
    \/ \E p \in Procs : ensure_v2_schema_start(p)
    \/ \E p \in Procs : v2_reset_drop(p)
    \/ \E p \in Procs : connect_fails(p)
    \/ \E p \in Procs : ensure_create(p)
    \/ \E p \in Procs : ensure_commit_ddl(p)
    \/ \E p \in Procs : ensure_create_raises(p)
    \/ \E p \in Procs : ensure_count_projects(p)
    \/ \E p \in Procs : ensure_insert_project(p)
    \/ \E p \in Procs : ensure_count_people(p)
    \/ \E p \in Procs : ensure_insert_person(p)
    \/ \E p \in Procs : ensure_commit(p)
    \/ \E op \in BootRequests : undefined_table(op)
    \/ \E p \in BootInputs.person, r \in BootInputs.project, d \in BootInputs.date,
          h \in BootInputs.hours, n \in BootInputs.notes :
          tables /\ time_add(p, r, d, h, n)
    \/ \E n \in NameInputs, m \in BootInputs.email :
          tables /\ email_free(m) /\ people_add(n, m)
    \/ \E c \in BootInputs.code, n \in NameInputs :
          tables /\ code_free(c) /\ projects_add(c, n)

SpecBoot == Init /\ [][NextBoot]_vars

(***************************************************************************)
(* POST /time/submit-week, /approvals/approve and /approvals/reject on     *)
(* several workers: cur.execute(UPDATE ...) and conn.commit() are two      *)
(* steps.  The UPDATE locks the rows it changes until the commit; an       *)
(* UPDATE reads the rows as committed, and when a row of its WHERE is      *)
(* locked it waits, and then works on the row as the other transaction has *)
(* committed it.                                                           *)
(***************************************************************************)
AllIdle == \A q \in Procs : proc[q] = Idle

\* SET status = ...
status_set(op) ==
    IF op = "time_submit_week" THEN "submitted"
    ELSE IF op = "approvals_approve" THEN "approved" ELSE "draft"

\* the rows of the UPDATE's WHERE
update_where(ent, op, args) ==
    IF op = "time_submit_week"
    THEN LET w == iso_week_dates(args[2], args[3])
         IN  submit_week_rows(ent, args[1], w.days[1], w.days[7])
    ELSE {args[1]} \cap DOMAIN ent

\* the request run alone, statement and commit
apply_update(ent, op, args) == SetStatus(ent, update_where(ent, op, args), status_set(op))

\* mutant: an UPDATE that does not wait for the rows another transaction has updated
locked_never(p) == {}

\* the rows the other open transactions have updated
locked(p) == UNION {proc[q].rows : q \in Others(p)}

\* the requests that run at the same time start from the committed rows
round == IF AllIdle THEN [serial |-> entries, commit |-> entries] ELSE shadow

\* cur.execute(UPDATE ...).  shadow.serial is v2_time_entries had every request run
\* alone, a submit-week when its UPDATE read the rows, an approve or reject when it
\* committed
update_execute(p, op, args) ==
    /\ proc[p] = Idle
    /\ tables
    /\ update_where(entries, op, args) \cap locked(p) = {}
    /\ Goto(p, [Idle EXCEPT !.op = op, !.pc = "commit_update", !.args = args,
                            !.rows = update_where(entries, op, args)])
    /\ shadow' = [round EXCEPT !.serial = IF op = "time_submit_week"
                                           THEN apply_update(@, op, args) ELSE @]
    /\ UNCHANGED <<people, projects, entries, seq, last, wk, tables>>

\* iso_week_dates raises before the connection is opened
time_submit_week_execute(p, person_id, year, week) ==
    IF iso_week_dates(year, week).ok
    THEN update_execute(p, "time_submit_week", <<person_id, year, week>>)
    ELSE /\ proc[p] = Idle
         /\ last' = Response("time_submit_week", 500)
         /\ UNCHANGED <<people, projects, entries, seq, wk, ctl>>

approvals_approve_execute(p, entry_id) == update_execute(p, "approvals_approve", <<entry_id>>)

approvals_reject_execute(p, entry_id) == update_execute(p, "approvals_reject", <<entry_id>>)

\* conn.commit() and the redirect: shadow.commit is v2_time_entries had every request run
\* alone when it committed
update_commit(p) ==
    /\ proc[p].pc = "commit_update"
    /\ entries' = SetStatus(entries, proc[p].rows, status_set(proc[p].op))
    /\ shadow' = [shadow EXCEPT !.commit = apply_update(@, proc[p].op, proc[p].args),
                                !.serial = IF proc[p].op = "time_submit_week"
                                           THEN @ ELSE apply_update(@, proc[p].op, proc[p].args)]
    /\ Goto(p, Idle)
    /\ last' = Response(proc[p].op, 303)
    /\ UNCHANGED <<people, projects, seq, wk, tables>>

\* two persons' entries on the Sunday of week 1 and the Monday of week 2
RaceInputs ==
    [week |-> {<<2024, 1>>, <<2024, 53>>}, person |-> PersonIdInputs, project |-> {None},
     date |-> WorkDateInputs, hours |-> {6000}, notes |-> {None},
     email |-> {None}, code |-> {None}]

NextRace ==
    \/ \E p \in Procs, q \in RaceInputs.person, yw \in RaceInputs.week :
          time_submit_week_execute(p, q, yw[1], yw[2])
    \/ \E p \in Procs, e \in EntryIdInputs : approvals_approve_execute(p, e)
    \/ \E p \in Procs, e \in EntryIdInputs : approvals_reject_execute(p, e)
    \/ \E p \in Procs : update_commit(p)
    \/ \E p \in RaceInputs.person, r \in RaceInputs.project, d \in RaceInputs.date,
          h \in RaceInputs.hours, n \in RaceInputs.notes :
          AllIdle /\ time_add(p, r, d, h, n)
    \/ \E n \in NameInputs, m \in RaceInputs.email : AllIdle /\ people_add(n, m)

SpecRace == Init /\ [][NextRace]_vars

(***************************************************************************)
(* The ISO-8601 calendar the claims speak of: week 1 of a year is the week *)
(* that holds the year's first Thursday; weeks run Monday..Sunday.         *)
(* Ordinal 1 is Monday 0001-01-01.                                         *)
(***************************************************************************)
Weekday(ord) == (ord + 6) % 7                       \* 0 is Monday, 3 is Thursday
FirstThursday(year) ==
    CHOOSE d \in ymd2ord_jan1(year)..(ymd2ord_jan1(year) + 6) : Weekday(d) = 3
\* the number of Thursdays of the year
IsoWeeksIn(year) == ((ymd2ord_jan1(year + 1) - 1 - FirstThursday(year)) \div 7) + 1
IsoMonday(year, week) == FirstThursday(year) - 3 + 7 * (week - 1)
IsIsoWeek(year, week) == 1 <= week /\ week <= IsoWeeksIn(year)
\* the week exists and datetime.date can hold its seven days
HasWeekRange(year, week) ==
    /\ MINYEAR <= year /\ year <= MAXYEAR
    /\ IsIsoWeek(year, week)
    /\ IsoMonday(year, week) + 6 <= MAXORDINAL
InIsoWeek(d, year, week) == IsoMonday(year, week) <= d /\ d <= IsoMonday(year, week) + 6

Statuses == {"draft", "submitted", "approved"}

(***************************************************************************)
(* C1: submit_week(person_id, year, week) sets to 'submitted' exactly the  *)
(* entries of that person whose work_date lies in Monday..Sunday of that   *)
(* ISO week and whose status is 'draft'; every other entry keeps its       *)
(* status and all other fields, and no entry is created or deleted.        *)
(***************************************************************************)
C1_Submitted(e, person_id, year, week) ==
    /\ e.person_id = person_id
    /\ InIsoWeek(e.work_date, year, week)
    /\ e.status = "draft"

C1_SubmitWeekFrame ==
    [][\A p \in PersonIdInputs, yw \in WeekInputs :
          (/\ last'.op = "time_submit_week"
           /\ HasWeekRange(yw[1], yw[2])
           /\ time_submit_week(p, yw[1], yw[2]))
          => /\ DOMAIN entries' = DOMAIN entries
             /\ \A i \in DOMAIN entries :
                   IF C1_Submitted(entries[i], p, yw[1], yw[2])
                   THEN entries'[i] = [entries[i] EXCEPT !.status = "submitted"]
                   ELSE entries'[i] = entries[i]
             /\ UNCHANGED <<people, projects>>]_vars

\* a submit has just answered, one entry is submitted and another was left as it was
C1_Witness ==
    /\ last.op = "time_submit_week" /\ last.code = 303
    /\ \E i, j \in DOMAIN entries :
          /\ entries[i].status = "submitted"
          /\ entries[j].status = "approved"
          /\ entries[i].person_id = entries[j].person_id
          /\ InIsoWeek(entries[i].work_date, 2024, 1)
          /\ InIsoWeek(entries[j].work_date, 2024, 1)

(***************************************************************************)
(* C2: approve and reject are ungated: on an existing entry in any status  *)
(* approve(entry_id) leaves it 'approved' and reject(entry_id) leaves it   *)
(* 'draft'; neither changes another entry or a field other than status.    *)
(***************************************************************************)
C2_Decided(e, status) ==
    /\ DOMAIN entries' = DOMAIN entries
    /\ \A i \in DOMAIN entries :
          entries'[i] = IF i = e THEN [entries[i] EXCEPT !.status = status] ELSE entries[i]
    /\ UNCHANGED <<people, projects>>

C2_DecisionsUngated ==
    [][\A e \in EntryIdInputs :
          /\ (last'.op = "approvals_approve" /\ e \in DOMAIN entries /\ approvals_approve(e))
                => C2_Decided(e, "approved")
          /\ (last'.op = "approvals_reject" /\ e \in DOMAIN entries /\ approvals_reject(e))
                => C2_Decided(e, "draft")]_vars

\* a reject has just answered: an entry is draft beside one that is approved
C2_Witness ==
    /\ last.op = "approvals_reject"
    /\ \E i, j \in DOMAIN entries :
          entries[i].status = "draft" /\ entries[j].status = "approved"

(***************************************************************************)
(* C3: every stored entry has status draft, submitted or approved, and an  *)
(* entry is in status draft right after the add that created it.           *)
(***************************************************************************)
C3_StatusEnumerated ==
    /\ \A i \in DOMAIN entries : entries[i].status \in Statuses
    /\ (last.op = "time_add" /\ last.code = 303)
          => seq.entries \in DOMAIN entries /\ entries[seq.entries].status = "draft"

\* an add has just created the second entry, beside an approved one
C3_Witness ==
    /\ last.op = "time_add" /\ last.code = 303
    /\ \E i \in DOMAIN entries : i # seq.entries /\ entries[i].status = "approved"

(***************************************************************************)
(* C4: submit_week is idempotent: the same call again, right after the     *)
(* first, changes no entry.                                                *)
(***************************************************************************)
C4_SubmitWeekIdempotent ==
    [][\A p \in PersonIdInputs, yw \in WeekInputs :
          (last'.op = "time_submit_week" /\ time_submit_week(p, yw[1], yw[2]))
          => LET w == iso_week_dates(yw[1], yw[2])
             IN  IF w.ok
                 THEN submit_week_update(entries', p, w.days[1], w.days[7]) = entries'
                 ELSE entries' = entries]_vars

\* a submit has just answered and the person's week holds a submitted entry
C4_Witness ==
    /\ last.op = "time_submit_week" /\ last.code = 303
    /\ \E i \in DOMAIN entries :
          entries[i].status = "submitted" /\ InIsoWeek(entries[i].work_date, 2024, 2)

(***************************************************************************)
(* C5: the aggregate status of week_summary is 'approved' if the person's  *)
(* entries in the week are non-empty and all approved, otherwise           *)
(* 'submitted' if one of them is submitted, otherwise 'draft'.             *)
(***************************************************************************)
C5_InRange(c) ==
    {i \in DOMAIN entries : /\ entries[i].person_id = c.person_id
                            /\ InIsoWeek(entries[i].work_date, c.year, c.week)}

C5_AggregateStatus ==
    (last.op = "my_week" /\ last.code = 200)
    => LET c == last.body[1]
           S == C5_InRange(c)
       IN  c.status_hint =
              IF S # {} /\ \A i \in S : entries[i].status = "approved" THEN "approved"
              ELSE IF \E i \in S : entries[i].status = "submitted" THEN "submitted"
              ELSE "draft"

\* the summary of a week with an approved and a draft entry, none submitted, says draft
C5_Witness ==
    /\ last.op = "my_week" /\ last.code = 200
    /\ last.body[1].status_hint = "draft"
    /\ \E i, j \in C5_InRange(last.body[1]) :
          entries[i].status = "approved" /\ entries[j].status = "draft"

(***************************************************************************)
(* C7: deleting person P leaves no entry of P, whatever its status, and    *)
(* leaves the entries of every other person, all projects and all other    *)
(* people as they were; so every entry's person_id is an existing person.  *)
(***************************************************************************)
C7_Cascaded(P) ==
    /\ DOMAIN people' = DOMAIN people \ {P}
    /\ \A q \in DOMAIN people' : people'[q] = people[q]
    /\ DOMAIN entries' = {i \in DOMAIN entries : entries[i].person_id # P}
    /\ \A i \in DOMAIN entries' : entries'[i] = entries[i]
    /\ projects' = projects

C7_PersonDeleteCascades ==
    /\ [](\A i \in DOMAIN entries : entries[i].person_id \in DOMAIN people)
    /\ [][\A P \in PersonIdInputs :
             (last'.op = "people_delete" /\ people_delete(P)) => C7_Cascaded(P)]_vars

\* a delete has just removed a person and an entry: one of two entries is left, of the
\* person who is left
C7_Witness ==
    /\ last.op = "people_delete"
    /\ seq.entries = 2 /\ Cardinality(DOMAIN entries) = 1
    /\ Cardinality(DOMAIN people) = 1
    /\ \E i \in DOMAIN entries : entries[i].status = "approved"

(***************************************************************************)
(* C6: week_summary groups under exactly the seven dates of the week, each *)
(* present even when empty; each entry of the person in the range appears  *)
(* once, under its own work_date; no other entry appears; total_hours is   *)
(* the sum of hours over exactly those entries.                            *)
(***************************************************************************)
RECURSIVE C6_SumOver(_)
C6_SumOver(S) ==
    IF S = {} THEN 0
    ELSE LET i == CHOOSE x \in S : TRUE IN entries[i].hours + C6_SumOver(S \ {i})

C8_Nullified(R) ==
    /\ DOMAIN entries' = DOMAIN entries
    /\ \A i \in DOMAIN entries :
          entries'[i] = IF entries[i].project_id = Some(R)
                        THEN [entries[i] EXCEPT !.project_id = None]
                        ELSE entries[i]
    /\ DOMAIN projects' = DOMAIN projects \ {R}
    /\ \A r \in DOMAIN projects' : projects'[r] = projects[r]
    /\ people' = people

C8_ProjectDeleteNullifies ==
    [][\A R \in ProjectIdInputs :
          (last'.op = "projects_delete" /\ projects_delete(R)) => C8_Nullified(R)]_vars

\* a delete has just removed project 1: an approved entry is left without a project,
\* beside an entry on project 2
C8_Witness ==
    /\ last.op = "projects_delete"
    /\ 1 \notin DOMAIN projects
    /\ \E i, j \in DOMAIN entries :
          /\ entries[i].project_id = None /\ entries[i].status = "approved"
          /\ entries[i].notes # None
          /\ entries[j].project_id = Some(2)

(***************************************************************************)
(* C9 as claimed: add_entry fails when hours < 0 or person_id is no        *)
(* existing person, and then creates no entry and leaves the stored rows   *)
(* unchanged; otherwise it creates exactly one new entry with the given    *)
(* fields; hence every stored entry has hours >= 0.                        *)
(***************************************************************************)
C9_Failed == last'.code = 500 /\ db' = db

C9_Created(p, r, d, n) ==
    LET new == seq'.entries
    IN  /\ last'.code = 303
        /\ new \notin DOMAIN entries
        /\ DOMAIN entries' = DOMAIN entries \cup {new}
        /\ \A i \in DOMAIN entries : entries'[i] = entries[i]
        /\ entries'[new].person_id = p
        /\ entries'[new].project_id = r
        /\ entries'[new].work_date = d
        /\ entries'[new].notes = n
        /\ entries'[new].status = "draft"
        /\ UNCHANGED <<people, projects>>

C9_AddEntryAsClaimed ==
    /\ [](\A i \in DOMAIN entries : entries[i].hours >= 0)
    /\ [][\A p \in EntryInputs.person, r \in EntryInputs.project, d \in EntryInputs.date,
            h \in EntryInputs.hours, n \in EntryInputs.notes :
             (last'.op = "time_add" /\ time_add(p, r, d, h, n))
             => IF h < 0 \/ p \notin DOMAIN people
                THEN C9_Failed
                ELSE C9_Created(p, r, d, n) /\ entries'[seq'.entries].hours * 10 = h]_vars

(***************************************************************************)
(* C9 as amended: the hours are stored rounded to two decimals, half away  *)
(* from zero.  add_entry fails, creating no entry and leaving the stored   *)
(* rows unchanged, exactly when hours <= -0.005 (the rounded hours are     *)
(* negative), hours >= 999.995 (they do not fit NUMERIC(5,2)), person_id   *)
(* is no existing person, or a project_id is given that is no existing     *)
(* project; otherwise it creates exactly one new draft entry with the      *)
(* given person, project, date and notes and the rounded hours; hence      *)
(* every stored entry has hours >= 0.                                      *)
(***************************************************************************)
C9_Abs(x) == IF x < 0 THEN -x ELSE x

\* `stored` hundredths is `h` thousandths rounded half away from zero
C9_IsRounded(stored, h) ==
    /\ C9_Abs(10 * stored - h) <= 5
    /\ C9_Abs(10 * stored - h) = 5 => C9_Abs(10 * stored) > C9_Abs(h)

C9_AddEntryValidated ==
    /\ [](\A i \in DOMAIN entries : entries[i].hours >= 0)
    /\ [][\A p \in EntryInputs.person, r \in EntryInputs.project, d \in EntryInputs.date,
            h \in EntryInputs.hours, n \in EntryInputs.notes :
             (last'.op = "time_add" /\ time_add(p, r, d, h, n))
             => IF \/ h <= -5
                   \/ h >= 999995
                   \/ p \notin DOMAIN people
                   \/ (r # None /\ r[1] \notin DOMAIN projects)
                THEN C9_Failed
                ELSE /\ C9_Created(p, r, d, n)
                     /\ C9_IsRounded(entries'[seq'.entries].hours, h)]_vars

\* an add has just failed beside an entry stored with 0.00 h, sent as -0.004 h
C9_Witness ==
    /\ last.op = "time_add" /\ last.code = 500
    /\ \E i \in DOMAIN entries : entries[i].hours = 0 /\ entries[i].notes # None

(***************************************************************************)
(* C10 as claimed: week_dates(year, week) is defined exactly on the weeks  *)
(* of the ISO calendar of the year: for 1 <= week <= 52 or 53, as the year *)
(* has, it returns 7 consecutive dates from the Monday of that ISO week,   *)
(* and for any other week it fails with an invalid-week error.  Stated for *)
(* the years datetime.date has, MINYEAR..MAXYEAR.                          *)
(***************************************************************************)
C10_WeekDatesOnIsoWeeks ==
    (wk.res # None /\ MINYEAR <= wk.year /\ wk.year <= MAXYEAR)
    => LET r == wk.res[1]
       IN  IF IsIsoWeek(wk.year, wk.week)
           THEN /\ r.ok
                /\ Len(r.days) = 7
                /\ \A k \in 1..7 : r.days[k] = IsoMonday(wk.year, wk.week) + (k - 1)
           ELSE ~r.ok /\ r.err = "ValueError: Invalid week"

(***************************************************************************)
(* C11  The schema manager, run any number of times, one after another or  *)
(* at the same time as other runs and as requests, never deletes or        *)
(* changes a stored person, project or entry, adds the default project     *)
(* only to an empty projects relation and the default person only to an    *)
(* empty people relation, and never leaves two copies of a seed row.       *)
(***************************************************************************)
\* a step of worker p inside ensure_v2_schema (called at import or by v2_reset)
C11_EnsureStep(p) ==
    /\ proc[p].pc \in {"create", "create_wait", "raise", "commit_ddl", "count_projects",
                       "insert_project", "count_people", "insert_person", "commit"}
    /\ proc'[p] # proc[p]

C11_Kept(rel, rel2) == \A i \in DOMAIN rel : i \in DOMAIN rel2 /\ rel2[i] = rel[i]

C11_NonDestructive ==
    [][\A p \in Procs : C11_EnsureStep(p) =>
          /\ C11_Kept(people, people')
          /\ C11_Kept(projects, projects')
          /\ entries' = entries]_vars

C11_OneSeedCopy ==
    /\ Cardinality(code_conflict(projects, DefaultProject.code)) <= 1
    /\ Cardinality(email_conflict(people, DefaultPerson.email)) <= 1

\* the relation is empty when the INSERT of its seed row runs
C11_SeedsOnlyWhenEmpty ==
    [][\A p \in Procs : C11_EnsureStep(p) =>
          /\ (proc'[p].ins.projects # proc[p].ins.projects /\ proc'[p].ins.projects # None)
                => DOMAIN projects = {}
          /\ (proc'[p].ins.people # proc[p].ins.people /\ proc'[p].ins.people # None)
                => DOMAIN people = {}]_vars

\* C11 as the claim states it
C11_SchemaManagerSafe ==
    /\ C11_NonDestructive
    /\ []C11_OneSeedCopy
    /\ C11_SeedsOnlyWhenEmpty

(***************************************************************************)
(* C12  submit_week, approve and reject requests that run at the same time *)
(* on the same entry: every status update is applied as a whole, no entry  *)
(* is lost, no status leaves {draft, submitted, approved}, no entry other  *)
(* than the request's own changes, after approve or reject commits the     *)
(* entry has the status it wrote, and when the requests are through every  *)
(* entry's status is what running them one after another gives.            *)
(***************************************************************************)
\* the entries a request may change (the week as the ISO calendar defines it)
C12_Own(e, i, op, args) ==
    IF op = "time_submit_week"
    THEN e.person_id = args[1] /\ InIsoWeek(e.work_date, args[2], args[3])
    ELSE i = args[1]

\* a step of a racing request changes the status of its own entries at most, and only
\* when it commits
C12_UpdatesAtomic ==
    \A p \in Procs :
        (proc[p].pc \in {"idle", "commit_update"} /\ proc'[p] # proc[p]) =>
            /\ DOMAIN entries' = DOMAIN entries
            /\ \A i \in DOMAIN entries :
                  /\ entries'[i].status \in Statuses
                  /\ entries'[i] = [entries[i] EXCEPT !.status = entries'[i].status]
                  /\ entries'[i] # entries[i] =>
                        /\ proc[p].pc = "commit_update"
                        /\ C12_Own(entries[i], i, proc[p].op, proc[p].args)
                        /\ entries'[i].status = status_set(proc[p].op)

\* approve and reject: the entry has the status of the one that committed last
C12_LastCommitWins ==
    \A p \in Procs :
        (proc[p].pc = "commit_update" /\ proc'[p] = Idle
         /\ proc[p].op \in {"approvals_approve", "approvals_reject"}) =>
            \A i \in {proc[p].args[1]} \cap DOMAIN entries :
                entries'[i].status = status_set(proc[p].op)

\* the last of the racing requests has committed
C12_Through == ~AllIdle /\ AllIdle'

\* C12 as the claim states it: one after another in the order of the commits
C12_CommitOrder ==
    [][/\ C12_UpdatesAtomic
       /\ C12_LastCommitWins
       /\ C12_Through => entries' = shadow'.commit]_vars

\* C12 amended: one after another, approve and reject in the order of their commits, a
\* submit-week where its UPDATE read the rows
C12_ReadOrder ==
    [][/\ C12_UpdatesAtomic
       /\ C12_LastCommitWins
       /\ C12_Through => entries' = shadow'.serial]_vars

\* two requests on one entry are through, and run one after another in the order of
\* their commits they would have left the entry in another status
C12_Witness ==
    /\ AllIdle
    /\ last.op \in {"time_submit_week", "approvals_approve", "approvals_reject"}
    /\ entries = shadow.serial
    /\ DOMAIN shadow.commit = DOMAIN entries
    /\ \E i \in DOMAIN entries : shadow.commit[i].status # entries[i].status

(***************************************************************************)
(* C13  No operation commits a part of its work: when an operation, the    *)
(* reset and the schema initialization included, fails with a storage      *)
(* error, it has changed nothing of the stored people, projects and time   *)
(* entries.                                                                *)
(***************************************************************************)
\* worker p's call ends with an exception
C13_Fails(p) ==
    /\ proc[p].op # "idle"
    /\ proc'[p] = Idle
    /\ last'.op = proc[p].op
    /\ last'.code = 500

\* a request of one statement fails
C13_RequestFails ==
    /\ proc' = proc
    /\ last'.op \in BootRequests
    /\ last'.code = 500

\* the part that holds: a request of one statement, and ensure_v2_schema at the start of
\* a process
C13_RequestsAtomic == [][C13_RequestFails => db' = db]_vars

C13_SchemaInitAtomic ==
    [][\A p \in Procs : (C13_Fails(p) /\ proc[p].op = "ensure_v2_schema")
                            => (~proc[p].wrote /\ db' = db)]_vars

\* C13 as the claim states it
C13_NoPartialCommit ==
    [][/\ \A p \in Procs : C13_Fails(p) => (~proc[p].wrote /\ db' = db)
       /\ C13_RequestFails => db' = db]_vars

====
